---- MODULE Spec2Model ----
(***************************************************************************)
(* Model of codalab/objects/work_manager.py: the Worker that drives        *)
(* bundles CREATED -> STAGED -> RUNNING -> READY | FAILED against a        *)
(* shared bundle model (store), a per-worker Machine and a bundle store.   *)
(* Every store call of the worker is one atomic step, so that peer         *)
(* workers interleave between store calls exactly as separate processes    *)
(* do.                                                                     *)
(***************************************************************************)
EXTENDS Integers, Sequences, FiniteSets, TLC

VARIABLES
    deps,             \* bundle.dependencies: uuid -> set of parent uuids
    kind,             \* uuid -> "run" (RunBundle) | "make" (MakeBundle)
    reliable,         \* whether the machine and the bundle store never fail
    state,            \* store: uuid -> State
    data_hash,        \* store: uuid -> data hash or None
    metadata,         \* store: uuid -> metadata record
    queue,            \* store: the pending bundle actions
    blobs,            \* bundle store: the data hashes uploaded so far
    budget,           \* number of actions the operator has yet to queue
    running,          \* machine of worker w: bundles it executes
    killed,           \* machine of worker w: bundles it has terminated
    machine_finalized,\* machine of worker w: uuids given to finalize_bundle
    pc,               \* position of worker w in run_loop
    iteration,        \* run_loop: iteration
    num_iterations,   \* run_loop: num_iterations
    bool_killed,      \* run_loop: bool_killed
    bool_run,         \* run_loop: bool_run
    bool_done,        \* run_loop: bool_done
    bundle_data,      \* Worker.bundle_data: uuid -> record
    popped,           \* check_killed_bundles: bundle_actions
    keep,             \* check_killed_bundles: keep_bundle_actions
    bundles,          \* update_created_bundles / update_staged_bundles: bundles
    to_fail,          \* update_created_bundles: bundles_to_fail
    to_stage,         \* update_created_bundles: bundles_to_stage
    num_processed,    \* update_created_bundles: num_processed
    created_returns,  \* what update_created_bundles returned to run_loop
    new_running,      \* update_staged_bundles: new_running_bundles
    cur,              \* the bundle being started, restaged or finalized
    result            \* finalize_bundle: (success, data_hash, metadata, return pc)

vars == <<deps, kind, reliable, state, data_hash, metadata, queue, blobs, budget,
          running, killed, machine_finalized, pc, num_iterations, iteration,
          bool_killed, bool_run, bool_done, bundle_data, popped, keep,
          bundles, to_fail, to_stage, num_processed, created_returns,
          new_running, cur, result>>

store_vars == <<state, data_hash, metadata, queue, blobs>>
machine_vars == <<running, killed, machine_finalized>>
loop_vars == <<iteration, bool_killed, bool_run, bool_done>>
launch_vars == <<bundles, new_running, cur, result>>
kill_vars == <<popped, keep>>
created_vars == <<to_fail, to_stage, num_processed, created_returns>>
input_vars == <<deps, kind, reliable, num_iterations>>

----------------------------------------------------------------------------
(* Bounds *)

\* number of actions the operator queues for a worker that runs alone
MaxEnqueue == 2
\* number of actions the operator queues for two workers
MaxSharedEnqueue == 1
\* the largest num_iterations a bounded run_loop is called with
MaxIterations == 2

----------------------------------------------------------------------------
(* codalab.common *)

CREATED == "created"
STAGED == "staged"
RUNNING == "running"
READY == "ready"
FAILED == "failed"
State == {CREATED, STAGED, RUNNING, READY, FAILED}

KILL == "kill"
UNKNOWN == "unknown"
Command == {KILL, UNKNOWN}

None == "None"

Workers == {"w1", "w2"}
Uuids == {"A", "B", "C"}
\* a uuid named by a dependency and not (yet) in the store
MissingUuid == "X"

NoMessage == [text |-> None, uuids |-> {}]
NoMetadata == [failure_message |-> NoMessage, time |-> FALSE, actions |-> <<>>]

\* the exception messages of the collaborators
StartError == [text |-> "machine start error", uuids |-> {}]
UploadError == [text |-> "install or upload error", uuids |-> {}]

\* the data hash the bundle store computes for the directory of bundle b
HashOf(b) == <<"hash", b>>
NoHash == <<None>>

NoRecord == [present |-> FALSE, parent_dict |-> {}, actions |-> <<>>]
NoResult == [success |-> FALSE, data_hash |-> NoHash, metadata |-> NoMetadata,
             has_metadata |-> FALSE, ret |-> None]

----------------------------------------------------------------------------
(* The bundles of a run: dependencies and kinds *)

Chain == [A |-> {}, B |-> {"A"}, C |-> {"B"}]
FanIn == [A |-> {}, B |-> {}, C |-> {"A", "B"}]
Dangling == [A |-> {}, B |-> {"A", MissingUuid}, C |-> {"A"}]
Diamond == [A |-> {}, B |-> {"A"}, C |-> {"A", "B"}]
Pair == [A |-> {}, B |-> {"A"}, C |-> {MissingUuid}]
AllRun == [A |-> "run", B |-> "run", C |-> "run"]
MakeLast == [A |-> "run", B |-> "run", C |-> "make"]
MakeFirst == [A |-> "make", B |-> "run", C |-> "run"]

\* the workloads of a worker that has the store to itself
Workloads ==
    { [deps |-> Chain, kind |-> AllRun],
      [deps |-> Chain, kind |-> MakeFirst],
      [deps |-> FanIn, kind |-> MakeLast],
      [deps |-> Diamond, kind |-> AllRun],
      [deps |-> Dangling, kind |-> AllRun] }

\* the workloads of two workers sharing the store
SharedWorkloads ==
    { [deps |-> Pair, kind |-> AllRun],
      [deps |-> Pair, kind |-> MakeFirst] }

\* the bundles the operator queues actions for
ActionTargets == {"A", "B"}

----------------------------------------------------------------------------
(* The bundle model (store) *)

\* model.batch_get_bundles(state=s)
batch_get_bundles_state(s) == {b \in Uuids : state[b] = s}

\* model.batch_get_bundles(uuid=us): the bundles among us that exist
batch_get_bundles_uuid(us) == us \cap Uuids

\* model.batch_update_bundles(bundles=bs, update={'state': new},
\* condition={'state': cond}): whether the update applies
batch_update_bundles(bs, cond) == \A b \in bs : state[b] = cond

\* the metadata of a row after update_bundle merged the keys of upd into it
MergeMetadata(old, upd) ==
    [failure_message |-> IF upd.failure_message # NoMessage
                         THEN upd.failure_message ELSE old.failure_message,
     time |-> old.time \/ upd.time,
     actions |-> IF upd.actions # <<>> THEN upd.actions ELSE old.actions]

----------------------------------------------------------------------------
(* Worker.update_bundle_states *)

\* mutant: update_bundle_states returns True whatever the store answered
UpdateSucceedsAlways(bs, cond) == TRUE

\* the store's states after update_bundle_states(bs, new_state), where the
\* bundles were read in state cond; its return value is UpdateSucceeds
UpdateSucceeds(bs, cond) == bs = {} \/ batch_update_bundles(bs, cond)

\* mutant: the update is written without the condition on the state read
update_bundle_states_unconditional(bs, new_state, cond) ==
    [b \in Uuids |-> IF b \in bs THEN new_state ELSE state[b]]

update_bundle_states(bs, new_state, cond) ==
    IF bs # {} /\ batch_update_bundles(bs, cond)
    THEN [b \in Uuids |-> IF b \in bs THEN new_state ELSE state[b]]
    ELSE state

----------------------------------------------------------------------------
(* Init *)

\* the state after the Workers are constructed; run_loop is entered by the
\* workers in started, with num_iterations in iters, on a workload of wls;
\* the operator queues up to a number in budgets of bundle actions; envs
\* says whether the machine and the bundle store may fail; the machine given
\* to the first worker already executes the bundles of a set in orphans,
\* which are RUNNING in the store
InitEnv(wls, started, iters, budgets, envs, orphans) ==
    /\ \E wl \in wls : deps = wl.deps /\ kind = wl.kind
    /\ reliable \in envs
    /\ num_iterations \in iters
    /\ \E left \in orphans :
         /\ state = [b \in Uuids |-> IF b \in left THEN RUNNING ELSE CREATED]
         /\ running = [w \in Workers |-> IF w = "w1" THEN left ELSE {}]
    /\ data_hash = [b \in Uuids |-> NoHash]
    /\ metadata = [b \in Uuids |-> NoMetadata]
    /\ queue = <<>>
    /\ blobs = {}
    /\ budget \in budgets
    /\ killed = [w \in Workers |-> {}]
    /\ machine_finalized = [w \in Workers |-> {}]
    /\ pc = [w \in Workers |-> IF w \in started THEN "tick" ELSE "idle"]
    /\ iteration = [w \in Workers |-> 0]
    /\ bool_killed = [w \in Workers |-> FALSE]
    /\ bool_run = [w \in Workers |-> FALSE]
    /\ bool_done = [w \in Workers |-> FALSE]
    /\ bundle_data = [w \in Workers |-> [b \in Uuids |-> NoRecord]]
    /\ popped = [w \in Workers |-> <<>>]
    /\ keep = [w \in Workers |-> <<>>]
    /\ bundles = [w \in Workers |-> {}]
    /\ to_fail = [w \in Workers |-> {}]
    /\ to_stage = [w \in Workers |-> {}]
    /\ num_processed = [w \in Workers |-> 0]
    /\ created_returns = [w \in Workers |-> FALSE]
    /\ new_running = [w \in Workers |-> 0]
    /\ cur = [w \in Workers |-> None]
    /\ result = [w \in Workers |-> NoResult]

\* the same with exactly actions bundle actions and collaborators that may fail
InitWith(wls, started, iters, actions) ==
    InitEnv(wls, started, iters, {actions}, {FALSE}, {{}})

Init == InitWith(SharedWorkloads, Workers, {MaxIterations}, MaxSharedEnqueue)

InitSolo == InitWith(Workloads, {"w1"}, {0, MaxIterations}, MaxEnqueue)

\* one worker on a chain of RunBundles, with collaborators that may or may
\* not fail and with or without an action of the operator
InitLive ==
    InitEnv({[deps |-> Chain, kind |-> AllRun]}, {"w1"}, {0, MaxIterations},
            {0, MaxSharedEnqueue}, BOOLEAN, {{}})

\* two workers on A <- B, bounded or running on, with one action of the
\* operator
InitFair ==
    InitEnv({[deps |-> Pair, kind |-> AllRun]}, Workers, {0, MaxIterations},
            {MaxSharedEnqueue}, {FALSE}, {{}})

\* one worker constructed over a machine that still executes A, which an
\* earlier worker started and left RUNNING
InitRestart ==
    InitEnv({[deps |-> FanIn, kind |-> AllRun]}, {"w1"}, {0, MaxIterations},
            {MaxSharedEnqueue}, {FALSE}, {{"A"}})

----------------------------------------------------------------------------
(* The operator queues a bundle action (model.add_bundle_actions) *)

add_bundle_action(b, a) ==
    /\ budget > 0
    /\ budget' = budget - 1
    /\ queue' = Append(queue, [bundle_uuid |-> b, action |-> a])
    /\ UNCHANGED <<state, data_hash, metadata, blobs, machine_vars, pc,
                   loop_vars, bundle_data, kill_vars, created_vars,
                   launch_vars, input_vars>>

----------------------------------------------------------------------------
(* Worker.check_killed_bundles *)

\* the outcomes machine.kill_bundle can have on the popped actions: kr[i] is
\* the value it returns for the i-th action. It is called for KILL actions
\* only and returns true only for a bundle this machine runs and has not
\* yet terminated.
KillResults(w, acts) ==
    {kr \in [1..Len(acts) -> BOOLEAN] :
        \A i \in 1..Len(acts) :
            kr[i] => /\ acts[i].action = KILL
                     /\ acts[i].bundle_uuid \in running[w] \ killed[w]
                     /\ \A j \in 1..(i-1) :
                            ~(kr[j] /\ acts[j].bundle_uuid = acts[i].bundle_uuid)}

\* the for loop of check_killed_bundles from the i-th action on
RECURSIVE KillLoop(_, _, _, _, _)
KillLoop(acts, kr, i, kp, bd) ==
    IF i > Len(acts)
    THEN [keep |-> kp, bundle_data |-> bd, crashed |-> FALSE]
    ELSE LET x == acts[i]
             processed == x.action = KILL /\ kr[i]
         IN  IF processed
             THEN IF bd[x.bundle_uuid].present
                  THEN KillLoop(acts, kr, i + 1, kp,
                                [bd EXCEPT ![x.bundle_uuid].actions =
                                               Append(@, x.action)])
                  ELSE [keep |-> kp, bundle_data |-> bd, crashed |-> TRUE]
             ELSE KillLoop(acts, kr, i + 1, Append(kp, x), bd)

\* run_loop's test, model.pop_bundle_actions and the for loop
check_killed_bundles_pop(w) ==
    /\ pc[w] = "tick"
    /\ num_iterations = 0 \/ iteration[w] < num_iterations
    /\ \E kr \in KillResults(w, queue) :
         LET r == KillLoop(queue, kr, 1, <<>>, bundle_data[w])
         IN  /\ popped' = [popped EXCEPT ![w] = queue]
             /\ queue' = <<>>
             /\ keep' = [keep EXCEPT ![w] = r.keep]
             /\ bundle_data' = [bundle_data EXCEPT ![w] = r.bundle_data]
             /\ killed' = [killed EXCEPT ![w] =
                    @ \cup {queue[i].bundle_uuid : i \in {j \in 1..Len(queue) : kr[j]}}]
             /\ pc' = [pc EXCEPT ![w] = IF r.crashed THEN "crashed" ELSE "kill_add"]
    /\ UNCHANGED <<state, data_hash, metadata, blobs, budget, running,
                   machine_finalized, loop_vars, created_vars, launch_vars,
                   input_vars>>

\* mutant: the kept actions are not added back
RequeueNever(q, kp) == q

\* the queue after 'if len(keep_bundle_actions) > 0: add_bundle_actions(...)'
Requeue(q, kp) == IF Len(kp) > 0 THEN q \o kp ELSE q

\* return len(bundle_actions) - len(keep_bundle_actions) > 0
check_killed_bundles_returns(acts, kp) == Len(acts) - Len(kp) > 0

\* model.add_bundle_actions(keep_bundle_actions) and the return value
check_killed_bundles_add(w) ==
    /\ pc[w] = "kill_add"
    /\ queue' = Requeue(queue, keep[w])
    /\ bool_killed' = [bool_killed EXCEPT ![w] =
           check_killed_bundles_returns(popped[w], keep[w])]
    /\ popped' = [popped EXCEPT ![w] = <<>>]
    /\ keep' = [keep EXCEPT ![w] = <<>>]
    /\ pc' = [pc EXCEPT ![w] = "created_get"]
    /\ UNCHANGED <<state, data_hash, metadata, blobs, budget, machine_vars,
                   iteration, bool_run, bool_done, bundle_data,
                   created_vars, launch_vars, input_vars>>

----------------------------------------------------------------------------
(* Worker.update_created_bundles *)

\* model.batch_get_bundles(state=State.CREATED)
update_created_bundles_get(w) ==
    /\ pc[w] = "created_get"
    /\ bundles' = [bundles EXCEPT ![w] = batch_get_bundles_state(CREATED)]
    /\ pc' = [pc EXCEPT ![w] = "created_parents"]
    /\ UNCHANGED <<store_vars, budget, machine_vars, loop_vars, bundle_data,
                   kill_vars, created_vars, new_running, cur, result,
                   input_vars>>

\* mutant: every parent that is not READY counts as failed
failed_uuids_not_ready(b, all_parent_states) ==
    {uuid \in deps[b] \cap DOMAIN all_parent_states :
        all_parent_states[uuid] # READY}

\* failed_uuids of a bundle, given the states read for the parents
failed_uuids(b, all_parent_states) ==
    {uuid \in deps[b] \cap DOMAIN all_parent_states :
        all_parent_states[uuid] = FAILED}

\* 'Parent bundles failed: %s' % (', '.join(failed_uuids),)
ParentsFailedMessage(uuids) == [text |-> "Parent bundles failed", uuids |-> uuids]

\* bundles_to_fail: the (bundle, failure_message) pairs of the for loop
bundles_to_fail(bs, all_parent_states) ==
    {[bundle |-> b,
      failure_message |-> ParentsFailedMessage(failed_uuids(b, all_parent_states))] :
        b \in {c \in bs : /\ deps[c] \ DOMAIN all_parent_states = {}
                          /\ failed_uuids(c, all_parent_states) # {}}}

\* mutant: only bundles without parents are staged
bundles_to_stage_roots(bs, all_parent_states) == {b \in bs : deps[b] = {}}

\* mutant: the elif does not test that the parents are READY
bundles_to_stage_unchecked(bs, all_parent_states) ==
    {b \in bs : /\ deps[b] \ DOMAIN all_parent_states = {}
                /\ failed_uuids(b, all_parent_states) = {}}

\* bundles_to_stage of the for loop
bundles_to_stage(bs, all_parent_states) ==
    {b \in bs : /\ deps[b] \ DOMAIN all_parent_states = {}
                /\ failed_uuids(b, all_parent_states) = {}
                /\ \A uuid \in deps[b] : all_parent_states[uuid] = READY}

\* model.batch_get_bundles(uuid=parent_uuids) and the classifying for loop
update_created_bundles_parents(w) ==
    /\ pc[w] = "created_parents"
    /\ LET parent_uuids == UNION {deps[b] : b \in bundles[w]}
           parents == batch_get_bundles_uuid(parent_uuids)
           all_parent_states == [uuid \in parents |-> state[uuid]]
       IN  /\ to_fail' = [to_fail EXCEPT ![w] =
                              bundles_to_fail(bundles[w], all_parent_states)]
           /\ to_stage' = [to_stage EXCEPT ![w] =
                               bundles_to_stage(bundles[w], all_parent_states)]
           \* num_processed = len(bundles_to_fail) + len(bundles_to_stage)
           /\ num_processed' = [num_processed EXCEPT ![w] =
                  Cardinality(bundles_to_fail(bundles[w], all_parent_states))
                  + Cardinality(bundles_to_stage(bundles[w], all_parent_states))]
    /\ pc' = [pc EXCEPT ![w] = "created_fail"]
    /\ UNCHANGED <<store_vars, budget, machine_vars, loop_vars, bundle_data,
                   kill_vars, created_returns, launch_vars, input_vars>>

\* one pass of the failing loop: model.update_bundle(bundle, update)
update_created_bundles_fail(w) ==
    /\ pc[w] = "created_fail"
    /\ \E f \in to_fail[w] :
         /\ state' = [state EXCEPT ![f.bundle] = FAILED]
         /\ metadata' = [metadata EXCEPT ![f.bundle] =
                MergeMetadata(@, [NoMetadata EXCEPT
                                     !.failure_message = f.failure_message])]
         /\ to_fail' = [to_fail EXCEPT ![w] = @ \ {f}]
    /\ UNCHANGED <<data_hash, queue, blobs, budget, machine_vars, pc,
                   loop_vars, bundle_data, kill_vars, to_stage, num_processed,
                   created_returns, launch_vars, input_vars>>

\* 'if num_processed > 0: ... return True' and 'return False'; staged is the
\* value of update_bundle_states(bundles_to_stage, State.STAGED), which the
\* method does not look at
update_created_bundles_returns(n, staged) == n > 0

\* self.update_bundle_states(bundles_to_stage, State.STAGED) and the return
update_created_bundles_stage(w) ==
    /\ pc[w] = "created_fail"
    /\ to_fail[w] = {}
    /\ state' = update_bundle_states(to_stage[w], STAGED, CREATED)
    /\ created_returns' = [created_returns EXCEPT ![w] =
           update_created_bundles_returns(num_processed[w],
                                          UpdateSucceeds(to_stage[w], CREATED))]
    /\ num_processed' = [num_processed EXCEPT ![w] = 0]
    /\ to_stage' = [to_stage EXCEPT ![w] = {}]
    /\ bundles' = [bundles EXCEPT ![w] = {}]
    /\ pc' = [pc EXCEPT ![w] = "staged_get"]
    /\ UNCHANGED <<data_hash, metadata, queue, blobs, budget, machine_vars,
                   loop_vars, bundle_data, kill_vars, to_fail, new_running,
                   cur, result, input_vars>>

----------------------------------------------------------------------------
(* Worker.update_staged_bundles and Worker.start_bundle *)

\* model.batch_get_bundles(state=State.STAGED)
update_staged_bundles_get(w) ==
    /\ pc[w] = "staged_get"
    /\ bundles' = [bundles EXCEPT ![w] = batch_get_bundles_state(STAGED)]
    /\ new_running' = [new_running EXCEPT ![w] = 0]
    \* run_loop has dropped the value of self.update_created_bundles()
    /\ created_returns' = [created_returns EXCEPT ![w] = FALSE]
    /\ pc' = [pc EXCEPT ![w] = "staged_loop"]
    /\ UNCHANGED <<store_vars, budget, machine_vars, loop_vars, bundle_data,
                   kill_vars, to_fail, to_stage, num_processed, cur, result,
                   input_vars>>

\* mutant: the result of update_bundle_states is not looked at
LockIgnored(b) == TRUE

\* whether update_staged_bundles goes on to start_bundle(b)
LockSucceeds(b) == UpdateSucceeds({b}, STAGED)

\* one pass of the for loop: self.update_bundle_states([bundle], State.RUNNING)
update_staged_bundles_lock(w) ==
    /\ pc[w] = "staged_loop"
    /\ \E b \in bundles[w] :
         /\ bundles' = [bundles EXCEPT ![w] = @ \ {b}]
         /\ state' = update_bundle_states({b}, RUNNING, STAGED)
         /\ IF LockSucceeds(b)
            THEN /\ cur' = [cur EXCEPT ![w] = b]
                 /\ pc' = [pc EXCEPT ![w] = "start"]
            ELSE \* 'WARNING: Bundle running, but state failed to update'
                 UNCHANGED <<cur, pc>>
    /\ UNCHANGED <<data_hash, metadata, queue, blobs, budget, machine_vars,
                   loop_vars, bundle_data, kill_vars, created_vars,
                   new_running, result, input_vars>>

\* what machine.start_bundle can do with a RunBundle
StartOutcomes == {"accept", "refuse", "raise"}

\* what it can do on this run: a reliable machine accepts every bundle
MachineStart == IF reliable THEN {"accept"} ELSE StartOutcomes

\* whether install_dependencies and bundle_store.upload can return normally
\* on this run: on a reliable run they always do
UploadOutcomes == IF reliable THEN {TRUE} ELSE BOOLEAN

\* mutant: start_bundle does not store the record
ScratchRecordNotStored(b) == NoRecord

\* the record start_bundle stores in self.bundle_data
ScratchRecord(b) ==
    [present |-> TRUE, parent_dict |-> batch_get_bundles_uuid(deps[b]),
     actions |-> <<>>]

\* mutant: a bundle the machine refused is not restaged
StartNextNoRestage(b, o) ==
    IF kind[b] # "run" THEN "finalize"
    ELSE IF o = "raise" THEN "finalize"
    ELSE "staged_loop"

\* the position start_bundle goes to, for RunBundle outcome o
StartNext(b, o) ==
    IF kind[b] # "run" THEN "finalize"
    ELSE IF o = "raise" THEN "finalize"
    ELSE IF o = "accept" THEN "staged_loop"
    ELSE "restage"

\* mutant: no inline finalize_bundle is given success = True
StartSuccessNever(b) == FALSE

\* the success start_bundle passes to finalize_bundle
StartSuccess(b) == kind[b] # "run"

\* start_bundle(bundle) up to its call of finalize_bundle or its return
start_bundle(w) ==
    /\ pc[w] = "start"
    /\ LET b == cur[w]
       IN  IF data_hash[b] # NoHash
           THEN \* precondition(bundle.data_hash is None, ...)
                /\ pc' = [pc EXCEPT ![w] = "crashed"]
                /\ UNCHANGED <<bundle_data, running, new_running, result, cur>>
           ELSE /\ bundle_data' = [bundle_data EXCEPT ![w][b] = ScratchRecord(b)]
                /\ \E o \in IF kind[b] = "run" THEN MachineStart ELSE {"none"} :
                     /\ pc' = [pc EXCEPT ![w] = StartNext(b, o)]
                     /\ running' = [running EXCEPT ![w] =
                            IF o = "accept" THEN @ \cup {b} ELSE @]
                     /\ new_running' = [new_running EXCEPT ![w] =
                            IF o = "accept" THEN @ + 1 ELSE @]
                     /\ result' = [result EXCEPT ![w] =
                            IF StartNext(b, o) = "finalize"
                            THEN [NoResult EXCEPT !.success = StartSuccess(b),
                                                  !.ret = "staged_loop"]
                            ELSE @]
                     /\ cur' = [cur EXCEPT ![w] =
                            IF StartNext(b, o) = "staged_loop" THEN None ELSE @]
    /\ UNCHANGED <<store_vars, budget, killed, machine_finalized, loop_vars,
                   kill_vars, created_vars, bundles, input_vars>>

\* Restage: self.update_bundle_states([bundle], State.STAGED)
update_staged_bundles_restage(w) ==
    /\ pc[w] = "restage"
    /\ state' = update_bundle_states({cur[w]}, STAGED, RUNNING)
    /\ cur' = [cur EXCEPT ![w] = None]
    /\ pc' = [pc EXCEPT ![w] = "staged_loop"]
    /\ UNCHANGED <<data_hash, metadata, queue, blobs, budget, machine_vars,
                   loop_vars, bundle_data, kill_vars, created_vars, bundles,
                   new_running, result, input_vars>>

----------------------------------------------------------------------------
(* Worker.finalize_bundle *)

\* (data_hash, metadata) after the try block: uploaded says whether
\* install_dependencies and bundle_store.upload both returned
UploadHash(b, uploaded) == IF uploaded THEN HashOf(b) ELSE NoHash

UploadMetadata(uploaded) ==
    IF uploaded THEN NoMetadata
    ELSE [NoMetadata EXCEPT !.failure_message = UploadError]

\* mutant: the except block does not set success = False
FinalSuccessIgnoringUpload(success, uploaded) == success

\* success after the try block
FinalSuccess(success, uploaded) == success /\ uploaded

\* mutant: the applied actions are not written to the metadata
FinalMetadataWithoutActions(b, uploaded, actions) ==
    IF kind[b] = "run"
    THEN [UploadMetadata(uploaded) EXCEPT !.time = TRUE]
    ELSE UploadMetadata(uploaded)

\* metadata after 'Update data': time and actions of a RunBundle
FinalMetadata(b, uploaded, actions) ==
    IF kind[b] = "run"
    THEN [UploadMetadata(uploaded) EXCEPT !.time = TRUE, !.actions = actions]
    ELSE UploadMetadata(uploaded)

\* state = State.READY if success else State.FAILED
FinalState(success) == IF success THEN READY ELSE FAILED

\* mutant: the lookup never fails
RecordAssumed(w, b) == TRUE

\* whether 'bundle_data = self.bundle_data[bundle.uuid]' finds the record
RecordFound(w, b) == bundle_data[w][b].present

\* finalize_bundle(result) up to the update it passes to model.update_bundle
finalize_bundle_upload(w) ==
    /\ pc[w] = "finalize"
    /\ LET b == cur[w]
       IN  IF ~RecordFound(w, b)
           THEN \* bundle_data = self.bundle_data[bundle.uuid] raises KeyError
                /\ pc' = [pc EXCEPT ![w] = "crashed"]
                /\ UNCHANGED <<blobs, result>>
           ELSE \E uploaded \in UploadOutcomes :
                  LET md == FinalMetadata(b, uploaded, bundle_data[w][b].actions)
                  IN  /\ blobs' = IF uploaded THEN blobs \cup {HashOf(b)} ELSE blobs
                      /\ result' = [result EXCEPT ![w] =
                             [success |-> FinalSuccess(result[w].success, uploaded),
                              data_hash |-> UploadHash(b, uploaded),
                              metadata |-> md,
                              has_metadata |-> md # NoMetadata,
                              ret |-> result[w].ret]]
                      /\ pc' = [pc EXCEPT ![w] = "commit"]
    /\ UNCHANGED <<state, data_hash, metadata, queue, budget, machine_vars,
                   loop_vars, bundle_data, kill_vars, created_vars, bundles,
                   new_running, cur, input_vars>>

\* self.bundle_data after finalize_bundle(bundle b)
FinalizedBundleData(bd, b) == bd

\* model.update_bundle(bundle, update), the removal of the temporary data
\* and the return to the caller
finalize_bundle_commit(w) ==
    /\ pc[w] = "commit"
    /\ LET b == cur[w]
           r == result[w]
       IN  /\ state' = [state EXCEPT ![b] = FinalState(r.success)]
           /\ data_hash' = [data_hash EXCEPT ![b] = r.data_hash]
           /\ metadata' = [metadata EXCEPT ![b] =
                  IF r.has_metadata THEN MergeMetadata(@, r.metadata) ELSE @]
           /\ machine_finalized' = [machine_finalized EXCEPT ![w] =
                  IF kind[b] = "run" THEN @ \cup {b} ELSE @]
           /\ bundle_data' = [bundle_data EXCEPT ![w] = FinalizedBundleData(@, b)]
           \* back in update_staged_bundles: if self.start_bundle(bundle)
           /\ new_running' = [new_running EXCEPT ![w] =
                  IF r.ret = "staged_loop" THEN @ + 1 ELSE @]
           /\ pc' = [pc EXCEPT ![w] = r.ret]
           /\ cur' = [cur EXCEPT ![w] = None]
           \* back in check_finished_bundles, result is still what poll returned
           /\ result' = [result EXCEPT ![w] =
                  IF r.ret = "tick_end" THEN [NoResult EXCEPT !.ret = r.ret]
                  ELSE NoResult]
    /\ UNCHANGED <<queue, blobs, budget, running, killed, loop_vars,
                   kill_vars, created_vars, bundles, input_vars>>

----------------------------------------------------------------------------
(* Worker.check_finished_bundles *)

\* the results machine.poll() can return: None or a finished bundle of this
\* machine; a bundle the machine terminated finishes without success, and on
\* a reliable machine every other bundle finishes with success
PollResults(w) ==
    {[bundle |-> None, success |-> FALSE]} \cup
    ({[bundle |-> b, success |-> ok] : b \in running[w], ok \in BOOLEAN} \
     ({[bundle |-> b, success |-> TRUE] : b \in killed[w]} \cup
      {[bundle |-> b, success |-> FALSE] :
          b \in IF reliable THEN running[w] \ killed[w] ELSE {}}))

\* the value check_finished_bundles returns to run_loop, given whether
\* machine.poll() returned a result (the method has no return statement)
check_finished_bundles_returns(polled) == FALSE

\* the end of update_staged_bundles (its return value) and
\* check_finished_bundles up to its call of finalize_bundle
check_finished_bundles(w) ==
    /\ pc[w] = "staged_loop"
    /\ bundles[w] = {}
    /\ bool_run' = [bool_run EXCEPT ![w] = new_running[w] > 0]
    /\ new_running' = [new_running EXCEPT ![w] = 0]
    /\ \E p \in PollResults(w) :
         /\ bool_done' = [bool_done EXCEPT ![w] =
                check_finished_bundles_returns(p.bundle # None)]
         /\ IF p.bundle = None
            THEN /\ pc' = [pc EXCEPT ![w] = "tick_end"]
                 /\ UNCHANGED <<cur, running, result>>
            ELSE /\ running' = [running EXCEPT ![w] = @ \ {p.bundle}]
                 /\ cur' = [cur EXCEPT ![w] = p.bundle]
                 /\ result' = [result EXCEPT ![w] =
                        [NoResult EXCEPT !.success = p.success, !.ret = "tick_end"]]
                 /\ pc' = [pc EXCEPT ![w] = "finalize"]
    /\ UNCHANGED <<store_vars, budget, killed, machine_finalized, iteration,
                   bool_killed, bundle_data, kill_vars, created_vars,
                   bundles, input_vars>>

----------------------------------------------------------------------------
(* Worker.run_loop *)

\* mutant: every pass of the loop counts
NothingHappenedNever(w) == FALSE

\* not (bool_killed or bool_run or bool_done)
NothingHappened(w) == ~(bool_killed[w] \/ bool_run[w] \/ bool_done[w])

\* the end of a pass of the while loop: go to sleep, or count the iteration
run_loop_end(w) ==
    /\ pc[w] = "tick_end"
    /\ iteration' = [iteration EXCEPT ![w] =
           IF NothingHappened(w) THEN @ ELSE @ + 1]
    /\ pc' = [pc EXCEPT ![w] = IF NothingHappened(w) THEN "sleep" ELSE "tick"]
    /\ bool_killed' = [bool_killed EXCEPT ![w] = FALSE]
    /\ bool_run' = [bool_run EXCEPT ![w] = FALSE]
    /\ bool_done' = [bool_done EXCEPT ![w] = FALSE]
    /\ result' = [result EXCEPT ![w] = NoResult]
    /\ UNCHANGED <<store_vars, budget, machine_vars, bundle_data, kill_vars,
                   created_vars, bundles, new_running, cur, input_vars>>

\* time.sleep(sleep_time) returns
run_loop_sleep(w) ==
    /\ pc[w] = "sleep"
    /\ pc' = [pc EXCEPT ![w] = "tick"]
    /\ UNCHANGED <<store_vars, budget, machine_vars, loop_vars, bundle_data,
                   kill_vars, created_vars, launch_vars, input_vars>>

\* the while condition fails: run_loop returns
run_loop_exit(w) ==
    /\ pc[w] = "tick"
    /\ ~(num_iterations = 0 \/ iteration[w] < num_iterations)
    /\ pc' = [pc EXCEPT ![w] = "exit"]
    /\ UNCHANGED <<store_vars, budget, machine_vars, loop_vars, bundle_data,
                   kill_vars, created_vars, launch_vars, input_vars>>

----------------------------------------------------------------------------

Next ==
    \/ \E b \in ActionTargets, a \in Command : add_bundle_action(b, a)
    \/ \E w \in Workers :
         \/ check_killed_bundles_pop(w)
         \/ check_killed_bundles_add(w)
         \/ update_created_bundles_get(w)
         \/ update_created_bundles_parents(w)
         \/ update_created_bundles_fail(w)
         \/ update_created_bundles_stage(w)
         \/ update_staged_bundles_get(w)
         \/ update_staged_bundles_lock(w)
         \/ start_bundle(w)
         \/ update_staged_bundles_restage(w)
         \/ finalize_bundle_upload(w)
         \/ finalize_bundle_commit(w)
         \/ check_finished_bundles(w)
         \/ run_loop_end(w)
         \/ run_loop_sleep(w)
         \/ run_loop_exit(w)

\* two workers share the store
Spec == Init /\ [][Next]_vars

\* one worker has the store to itself
SpecSolo == InitSolo /\ [][Next]_vars

\* one worker takes over a machine that is executing a bundle
SpecRestart == InitRestart /\ [][Next]_vars

\* a step of the code of worker w
WorkerStep(w) ==
    \/ check_killed_bundles_pop(w)
    \/ check_killed_bundles_add(w)
    \/ update_created_bundles_get(w)
    \/ update_created_bundles_parents(w)
    \/ update_created_bundles_fail(w)
    \/ update_created_bundles_stage(w)
    \/ update_staged_bundles_get(w)
    \/ update_staged_bundles_lock(w)
    \/ start_bundle(w)
    \/ update_staged_bundles_restage(w)
    \/ finalize_bundle_upload(w)
    \/ finalize_bundle_commit(w)
    \/ check_finished_bundles(w)
    \/ run_loop_end(w)
    \/ run_loop_sleep(w)
    \/ run_loop_exit(w)

\* machine.poll() returns a finished bundle to check_finished_bundles
Reap(w) == check_finished_bundles(w) /\ cur'[w] # None

\* one worker whose thread keeps running (time.sleep returns, every call
\* returns) and whose machine gets every bundle it runs finished: a poll of
\* some tick returns it
SpecLive ==
    /\ InitLive
    /\ [][Next]_vars
    /\ WF_vars(WorkerStep("w1"))
    /\ SF_vars(Reap("w1"))

----------------------------------------------------------------------------
(* Section 3: legal transitions *)

LegalEdges ==
    { <<CREATED, STAGED>>, <<CREATED, FAILED>>, <<STAGED, RUNNING>>,
      <<STAGED, FAILED>>, <<RUNNING, STAGED>>, <<RUNNING, READY>>,
      <<RUNNING, FAILED>> }

\* C1: with two workers sharing the store, every step that changes the
\* stored state of a bundle changes it along one of the legal edges, and
\* RUNNING -> STAGED is written only by the restage of the worker that
\* moved the bundle to RUNNING.
C1_LegalEdges ==
    [][\A b \in Uuids :
         state'[b] # state[b] =>
            /\ <<state[b], state'[b]>> \in LegalEdges
            /\ (state[b] = RUNNING /\ state'[b] = STAGED) =>
                   \E w \in Workers : pc[w] = "restage" /\ cur[w] = b]_vars

\* C1 witness: A was taken by both workers in turn (one launch was refused
\* and rolled back), has finished, and its child B is running.
C1_Witness ==
    /\ bundle_data["w1"]["A"].present
    /\ bundle_data["w2"]["A"].present
    /\ state["A"] = READY
    /\ state["B"] = RUNNING

----------------------------------------------------------------------------
(* Conditional-update exclusion *)

\* the bundles worker w has moved to RUNNING and neither finalized nor
\* rolled back: those its machine executes and the one it is working on
Holding(w) ==
    running[w] \cup
    (IF pc[w] \in {"start", "restage", "finalize", "commit"} THEN {cur[w]} ELSE {})

\* C2: no bundle is held (claimed as RUNNING, or executed by a machine) by
\* two workers at once and a held bundle is RUNNING in the store; a worker
\* goes on to start_bundle only over a STAGED -> RUNNING write of its own,
\* and a worker whose conditional update fails skips the bundle: it writes
\* nothing, stays in its loop, stores no record and starts nothing.
C2_ExclusiveClaim ==
    /\ [](\A w \in Workers, v \in Workers :
            /\ w # v => Holding(w) \cap Holding(v) = {}
            /\ \A b \in Holding(w) : state[b] = RUNNING)
    /\ [][\A w \in Workers :
            /\ (pc[w] = "staged_loop" /\ pc'[w] = "start") =>
                   state[cur'[w]] = STAGED /\ state'[cur'[w]] = RUNNING
            /\ \A b \in Uuids :
                   (pc[w] = "staged_loop" /\ b \in bundles[w] /\ b \notin bundles'[w]
                        /\ state[b] # STAGED) =>
                       /\ pc'[w] = "staged_loop"
                       /\ state' = state
                       /\ running' = running
                       /\ bundle_data' = bundle_data]_vars

\* C2 witness: both workers read A as STAGED; w1 has won the update and
\* holds A while A is still in the list w2 is about to try.
C2_Witness ==
    /\ pc["w1"] = "start" /\ cur["w1"] = "A"
    /\ pc["w2"] = "staged_loop" /\ "A" \in bundles["w2"]

----------------------------------------------------------------------------
(* Hash before READY *)

\* C3: a READY bundle has a data_hash that a completed upload returned, a
\* CREATED, STAGED or RUNNING bundle has none, and the step that makes a
\* bundle READY writes a hash that was uploaded before that step.
C3_ReadyHasHash ==
    /\ [](\A b \in Uuids :
            /\ state[b] = READY => data_hash[b] # NoHash /\ data_hash[b] \in blobs
            /\ state[b] \in {CREATED, STAGED, RUNNING} => data_hash[b] = NoHash)
    /\ [][\A b \in Uuids :
            (state[b] # READY /\ state'[b] = READY) =>
                /\ data_hash[b] = NoHash
                /\ data_hash'[b] \in blobs]_vars

\* C3 witness: a polled RunBundle and an inline MakeBundle are both READY
\* with their hashes, while a third bundle runs.
C3_Witness ==
    /\ state["A"] = READY /\ data_hash["A"] = HashOf("A") /\ kind["A"] = "make"
    /\ state["B"] = READY /\ data_hash["B"] = HashOf("B") /\ kind["B"] = "run"
    /\ state["C"] = RUNNING

----------------------------------------------------------------------------
(* Launch errors *)

\* C4: when machine.start_bundle raised for the RunBundle a worker has just
\* moved to RUNNING, the inline finalize_bundle leaves the bundle FAILED
\* with metadata.failure_message equal to the message of that exception.
C4_LaunchErrorMessage ==
    [][\A w \in Workers :
         (pc[w] = "commit" /\ pc'[w] # "commit"
              /\ result[w].ret = "staged_loop" /\ kind[cur[w]] = "run") =>
            /\ state'[cur[w]] = FAILED
            /\ metadata'[cur[w]].failure_message = StartError]_vars

----------------------------------------------------------------------------
(* Activity of a tick *)

\* whether check_finished_bundles finalized a bundle in the tick that ends
Reaped(w) == result[w].ret = "tick_end"

\* C5: a tick ends by counting the iteration, without sleeping, when the
\* kill dispatch, the launcher or the finalizer did something in it, and
\* ends by sleeping with the counter unchanged exactly when none of them did.
C5_ActivityCounts ==
    [][\A w \in Workers :
         (pc[w] = "tick_end" /\ pc'[w] # "tick_end") =>
            IF bool_killed[w] \/ bool_run[w] \/ Reaped(w)
            THEN iteration'[w] = iteration[w] + 1 /\ pc'[w] = "tick"
            ELSE iteration'[w] = iteration[w] /\ pc'[w] = "sleep"]_vars

----------------------------------------------------------------------------
(* The scratch registry *)

\* C6: when finalize_bundle completes for a bundle, the registry of the
\* worker holds no record for it, and at tick boundaries the registry holds
\* records only for the bundles running on this worker.
C6_RegistryOnlyRunning ==
    /\ [][\A w \in Workers :
            (pc[w] = "commit" /\ pc'[w] # "commit") =>
                ~bundle_data'[w][cur[w]].present]_vars
    /\ [](\A w \in Workers :
            pc[w] = "tick" =>
                \A b \in Uuids : bundle_data[w][b].present => b \in running[w])

\* C7: every bundle a worker's machine executes, and the bundle it is
\* restaging or finalizing, has a record in the worker's registry, so that
\* finalize_bundle never fails to find it; and no step removes the record of
\* a bundle the worker goes on holding.
C7_RunningHasRecord ==
    /\ [](\A w \in Workers :
            /\ \A b \in running[w] : bundle_data[w][b].present
            /\ pc[w] \in {"restage", "finalize", "commit"} =>
                   bundle_data[w][cur[w]].present
            /\ pc[w] # "crashed")
    /\ [][\A w \in Workers, b \in Uuids :
            (bundle_data[w][b].present /\ b \in Holding(w) /\ b \in Holding(w)') =>
                bundle_data'[w][b].present]_vars

\* C7 witness: machine.poll returned a bundle this worker started, and
\* finalize_bundle is about to look its record up while another bundle runs.
C7_Witness ==
    /\ pc["w1"] = "finalize" /\ result["w1"].ret = "tick_end"
    /\ bundle_data["w1"][cur["w1"]].present
    /\ running["w1"] # {}

----------------------------------------------------------------------------
(* Dependency propagation *)

\* the parents of b that are in the store in state s
ParentsIn(b, s) == {p \in deps[b] \cap Uuids : state[p] = s}

\* C8: with two workers sharing the store, a STAGED bundle has all its
\* parents in the store and READY; a bundle is moved from CREATED to STAGED
\* only in a state where all its parents are READY; and a CREATED bundle with
\* a parent that is missing, CREATED, STAGED or RUNNING and with no FAILED
\* parent stays CREATED.
C8_StagedParentsReady ==
    /\ [](\A b \in Uuids :
            state[b] = STAGED => deps[b] = ParentsIn(b, READY))
    /\ [][\A b \in Uuids :
            /\ (state[b] = CREATED /\ state'[b] = STAGED) =>
                   deps[b] = ParentsIn(b, READY)
            /\ (state[b] = CREATED /\ deps[b] # ParentsIn(b, READY)
                    /\ ParentsIn(b, FAILED) = {}) =>
                   state'[b] = CREATED]_vars

\* C8 witness: B is STAGED over its READY parent A (which had no parents and
\* was staged at once), while C, whose parent is missing, is still CREATED.
C8_Witness ==
    /\ state["A"] = READY /\ deps["A"] = {}
    /\ state["B"] = STAGED /\ deps["B"] = {"A"}
    /\ state["C"] = CREATED
    /\ \E w \in Workers : pc[w] = "staged_loop" /\ "B" \in bundles[w]

\* the uuids the stored failure_message of b names
Named(b) == metadata[b].failure_message.uuids

\* C9 as stated: a bundle goes from CREATED to FAILED only when a parent is
\* FAILED, and its failure_message then names every FAILED parent.
C9_NamesEveryFailedParent ==
    [][\A b \in Uuids :
         (state[b] = CREATED /\ state'[b] = FAILED) =>
            /\ ParentsIn(b, FAILED) # {}
            /\ Named(b)' = ParentsIn(b, FAILED)]_vars

\* C9 amended: a bundle goes from CREATED to FAILED only when a parent is
\* FAILED, and its failure_message names the parents that were FAILED when
\* update_created_bundles read the parents' states: at least one, all of
\* them FAILED parents at the write. On a chain A <- B <- C, once A is FAILED
\* B and C can only be CREATED or FAILED, B's message names A, C's message
\* names B, and C is not among the bundles being failed in the pass that
\* writes B's failure.
C9_FailedParentsNamed ==
    /\ [][\A w \in Workers :
            (pc[w] = "created_parents" /\ pc'[w] = "created_fail") =>
                \A f \in to_fail'[w] :
                    /\ f.failure_message.uuids = ParentsIn(f.bundle, FAILED)
                    /\ f.failure_message.uuids # {}]_vars
    /\ [][\A b \in Uuids :
            (state[b] = CREATED /\ state'[b] = FAILED) =>
                /\ Named(b)' # {}
                /\ Named(b)' \subseteq ParentsIn(b, FAILED)
                /\ \E w \in Workers : \E f \in to_fail[w] :
                       /\ f.bundle = b
                       /\ metadata'[b].failure_message = f.failure_message]_vars
    /\ [](deps = Chain =>
            /\ state["A"] = FAILED =>
                   /\ state["B"] \in {CREATED, FAILED}
                   /\ state["C"] \in {CREATED, FAILED}
                   /\ state["B"] = FAILED => Named("B") = {"A"}
            /\ (state["B"] = FAILED /\ state["C"] = FAILED) => Named("C") = {"B"})
    /\ [][(deps = Chain /\ state["B"] # FAILED /\ state'["B"] = FAILED) =>
            /\ state'["C"] = state["C"]
            /\ \A w \in Workers : \A f \in to_fail[w] : f.bundle # "C"]_vars

\* C9 witness: on the chain, A failed and the failure has reached B and C.
C9_Witness ==
    /\ deps = Chain
    /\ state["A"] = FAILED /\ state["B"] = FAILED /\ state["C"] = FAILED
    /\ Named("A") = {} /\ Named("B") = {"A"} /\ Named("C") = {"B"}

----------------------------------------------------------------------------
(* The kill dispatch *)

\* the number of entries of seq that equal v
Count(seq, v) == Cardinality({i \in 1..Len(seq) : seq[i] = v})

\* the number of actions a that the loop appended to the record of bundle u
Applied(w, u, a) ==
    Count(bundle_data'[w][u].actions, a) - Count(bundle_data[w][u].actions, a)

\* C10: check_killed_bundles pops the whole queue; every popped action is
\* either appended to its bundle's applied actions or kept, never both and
\* never neither; the appended ones are the KILLs for which machine.kill
\* returned true; the kept ones go back to the queue as one batch; and the
\* call returns true iff an action was appended.
C10_ActionsPreserved ==
    [][\A w \in Workers :
         /\ (pc[w] = "tick" /\ pc'[w] = "kill_add") =>
               /\ popped'[w] = queue /\ queue' = <<>>
               /\ \A u \in Uuids, a \in Command :
                     /\ Count(popped'[w], [bundle_uuid |-> u, action |-> a]) =
                            Count(keep'[w], [bundle_uuid |-> u, action |-> a])
                                + Applied(w, u, a)
                     /\ Applied(w, u, a) =
                            IF a = KILL /\ u \in killed'[w] \ killed[w] THEN 1 ELSE 0
         /\ (pc[w] = "kill_add" /\ pc'[w] # "kill_add") =>
               /\ queue' = queue \o keep[w]
               /\ bool_killed'[w] = (Len(popped[w]) > Len(keep[w]))]_vars

\* C10 witness: of two popped actions one was consumed and one is kept.
C10_Witness ==
    /\ pc["w1"] = "kill_add"
    /\ Len(popped["w1"]) = 2 /\ Len(keep["w1"]) = 1
    /\ \E b \in Uuids : bundle_data["w1"][b].actions = <<KILL>>

----------------------------------------------------------------------------
(* Section 4.1: the value update_created_bundles returns *)

\* C11: a call of update_created_bundles whose only candidates are bundles to
\* stage returns true if and only if its conditional batch update committed
\* a CREATED -> STAGED transition; when that update fails because a peer
\* changed one of the bundles, it returns false and no bundle of the batch
\* changes state.
C11_ReturnsCommitted ==
    [][\A w \in Workers :
         (/\ pc[w] = "created_fail"
          /\ pc'[w] = "staged_get"
          /\ num_processed[w] = Cardinality(to_stage[w]))
         => /\ created_returns'[w] <=>
                  \E b \in to_stage[w] : state[b] = CREATED /\ state'[b] = STAGED
            /\ ~UpdateSucceeds(to_stage[w], CREATED) =>
                  /\ ~created_returns'[w]
                  /\ \A b \in to_stage[w] : state'[b] = state[b]]_vars

----------------------------------------------------------------------------
(* Section 4.3: the outcomes of a launch *)

\* C12: a bundle the worker has moved from STAGED to RUNNING leaves
\* start_bundle in one of three ways: the machine accepted it and it stays
\* RUNNING on the machine; the machine refused it and the conditional
\* RUNNING -> STAGED update puts it back; or it is finalized inline and
\* becomes READY or FAILED without being on the machine. When the pass of
\* update_staged_bundles has ended, every RUNNING bundle is executed by the
\* machine, which can report it to poll.
C12_LaunchOutcomes ==
    /\ [][\A w \in Workers :
            LET b == cur[w]
            IN  /\ (pc[w] = "start" /\ pc'[w] # "start") =>
                       /\ pc'[w] \in {"staged_loop", "restage", "finalize"}
                       /\ state'[b] = RUNNING
                       /\ pc'[w] = "staged_loop" <=> b \in running'[w]
                       /\ pc'[w] = "finalize" => result'[w].ret = "staged_loop"
                /\ (pc[w] = "restage" /\ pc'[w] # "restage") =>
                       /\ state[b] = RUNNING /\ state'[b] = STAGED
                       /\ b \notin running'[w]
                       /\ pc'[w] = "staged_loop"
                /\ (pc[w] = "commit" /\ pc'[w] # "commit"
                         /\ result[w].ret = "staged_loop") =>
                       /\ state[b] = RUNNING /\ state'[b] \in {READY, FAILED}
                       /\ b \notin running'[w]
                       /\ pc'[w] = "staged_loop"]_vars
    /\ [](\A w \in Workers :
            (pc[w] = "staged_loop" /\ bundles[w] = {}) =>
                \A b \in Uuids :
                   state[b] = RUNNING =>
                      b \in running[w] /\ [bundle |-> b, success |-> FALSE] \in PollResults(w))

\* C12 witness: a pass over two STAGED bundles has ended; the machine accepted
\* A, which is RUNNING, and refused B, which is STAGED again.
C12_Witness ==
    /\ pc["w1"] = "staged_loop" /\ bundles["w1"] = {}
    /\ deps = FanIn /\ iteration["w1"] = 0
    /\ state["A"] = RUNNING /\ "A" \in running["w1"] /\ new_running["w1"] = 1
    /\ state["B"] = STAGED /\ bundle_data["w1"]["B"].present

----------------------------------------------------------------------------
(* Scenario: a KILL for a running bundle *)

\* the queued action {u, KILL}
KillOf(u) == [bundle_uuid |-> u, action |-> KILL]

\* C13: a tick begins with the kill dispatch: the step a worker takes from
\* the top of the loop pops the queue and calls machine.kill, and changes
\* no bundle state and starts or reaps nothing. A KILL for which machine.kill
\* returned true is for a bundle running on this machine, is recorded in its
\* scratch record and is not among the actions put back on the queue; and
\* when poll later returns that bundle (without success), finalize_bundle
\* stores it as FAILED with KILL in metadata.actions.
C13_KillApplied ==
    /\ [][\A w \in Workers :
            /\ (pc[w] = "tick" /\ pc'[w] # "tick") =>
                   /\ pc'[w] \in {"kill_add", "exit"}
                   /\ state' = state /\ running' = running
                   /\ machine_finalized' = machine_finalized
                   /\ \A u \in killed'[w] \ killed[w] :
                          /\ u \in running[w] /\ state[u] = RUNNING
                          /\ Count(queue, KillOf(u)) > 0
                          /\ Count(keep'[w], KillOf(u)) = Count(queue, KillOf(u)) - 1
                          /\ bundle_data'[w][u].actions =
                                 Append(bundle_data[w][u].actions, KILL)
            /\ (pc[w] = "kill_add" /\ pc'[w] # "kill_add") =>
                   \A u \in Uuids :
                      Count(queue', KillOf(u)) =
                          Count(queue, KillOf(u)) + Count(keep[w], KillOf(u))
            /\ (pc[w] = "commit" /\ pc'[w] # "commit"
                    /\ result[w].ret = "tick_end" /\ cur[w] \in killed[w]) =>
                   /\ state'[cur[w]] = FAILED
                   /\ Count(metadata'[cur[w]].actions, KILL) > 0]_vars
    /\ [](\A w \in Workers : \A u \in killed[w] :
            /\ Count(bundle_data[w][u].actions, KILL) > 0
            /\ (pc[w] = "finalize" /\ cur[w] = u) => ~result[w].success)

\* C13 witness: A was killed while it ran, poll returned it and it is stored
\* as FAILED with the KILL among its actions, the queue being empty.
C13_Witness ==
    /\ "A" \in killed["w1"] /\ "A" \notin running["w1"]
    /\ state["A"] = FAILED /\ metadata["A"].actions = <<KILL>>
    /\ queue = <<>> /\ pc["w1"] = "tick_end"

----------------------------------------------------------------------------
(* Scenario S1: a chain of RunBundles *)

\* C14: on the chain A <- B <- C of RunBundles, all CREATED, with a machine
\* that accepts every start and finishes every bundle with success, with
\* install and upload never failing, no action queued and run_loop running
\* forever, the bundles eventually are and remain all READY; and at no time
\* is a bundle STAGED, RUNNING or READY while its parent is not READY.
C14_ChainCompletes ==
    /\ (reliable /\ num_iterations = 0 /\ budget = 0
           /\ deps = Chain /\ kind = AllRun)
         => <>[](\A b \in Uuids : state[b] = READY)
    /\ [](\A b \in Uuids : \A p \in deps[b] :
            state[b] \in {STAGED, RUNNING, READY} => state[p] = READY)

\* C14 witness: on a reliable run that goes on forever, A and B are READY
\* and C is running after them.
C14_Witness ==
    /\ reliable /\ num_iterations = 0 /\ deps = Chain /\ kind = AllRun
    /\ state["A"] = READY /\ state["B"] = READY /\ "C" \in running["w1"]
    /\ \A b \in Uuids : metadata[b].actions = <<>>

----------------------------------------------------------------------------
(* MakeBundles *)

\* C15: a MakeBundle that a worker has moved from STAGED to RUNNING is
\* finalized inside start_bundle with success, without a call of
\* machine.start_bundle; when install and upload succeed it is READY with a
\* data_hash when control is back in the loop of update_staged_bundles, in
\* the same pass. It is never restaged, never on the machine, and so never
\* returned by poll or given to machine.finalize_bundle.
C15_MakeBundleInline ==
    /\ [][\A w \in Workers :
            LET b == cur[w]
            IN  /\ (pc[w] = "staged_loop" /\ pc'[w] = "start" /\ kind[cur'[w]] = "make") =>
                       \A p \in deps[cur'[w]] : state[p] = READY
                /\ (pc[w] = "start" /\ pc'[w] # "start" /\ kind[b] = "make") =>
                       /\ pc'[w] = "finalize"
                       /\ result'[w].success /\ result'[w].ret = "staged_loop"
                       /\ machine_vars' = machine_vars
                /\ (pc[w] = "commit" /\ pc'[w] # "commit" /\ kind[b] = "make") =>
                       /\ pc'[w] = "staged_loop"
                       /\ machine_vars' = machine_vars
                       /\ state[b] = RUNNING
                       /\ IF result[w].data_hash # NoHash
                          THEN state'[b] = READY /\ data_hash'[b] = HashOf(b)
                          ELSE state'[b] = FAILED /\ data_hash'[b] = NoHash]_vars
    /\ [](\A w \in Workers, b \in Uuids :
            kind[b] = "make" =>
               /\ b \notin running[w] \cup killed[w] \cup machine_finalized[w]
               /\ \A p \in PollResults(w) : p.bundle # b
               /\ ~(pc[w] = "restage" /\ cur[w] = b)
               /\ (pc[w] \in {"finalize", "commit"} /\ cur[w] = b) =>
                      result[w].ret = "staged_loop")

\* C15 witness: the MakeBundle C, whose parents A and B are READY, has just
\* been finalized in the launcher's loop and is READY with its data hash.
C15_Witness ==
    /\ kind["C"] = "make" /\ deps["C"] = {"A", "B"}
    /\ pc["w1"] = "staged_loop" /\ new_running["w1"] = 1
    /\ state = [b \in Uuids |-> READY] /\ data_hash["C"] = HashOf("C")

----------------------------------------------------------------------------
(* Termination of run_loop *)

----------------------------------------------------------------------------
(* What the machine is told *)

\* C17: start_bundle does not call finalize_bundle for a RunBundle that the
\* machine accepted; a bundle is on the machine only by such an accept, so
\* that poll returns accepted bundles only; and the finalize_bundle that
\* start_bundle calls inline, for a launch error or a MakeBundle, does not
\* call machine.finalize_bundle: the machine is told to finalize only
\* bundles that poll returned.
C17_BackendOnlyAccepted ==
    [][\A w \in Workers :
         /\ (pc[w] = "start" /\ cur[w] \in running'[w]) =>
                pc'[w] = "staged_loop" /\ kind[cur[w]] = "run"
         /\ running'[w] \ running[w] # {} =>
                pc[w] = "start" /\ running'[w] = running[w] \cup {cur[w]}
         /\ (pc[w] = "commit" /\ pc'[w] # "commit"
                 /\ result[w].ret = "staged_loop") =>
                machine_finalized'[w] = machine_finalized[w]]_vars

----------------------------------------------------------------------------
(* A polled bundle without a scratch record *)

\* C18: when poll returns a bundle for which the worker has no record,
\* finalize_bundle fails at the lookup: the worker stops there, nothing is
\* uploaded, the store (state, data_hash, metadata of every bundle) is as it
\* was, machine.finalize_bundle is not called, and the stopped worker never
\* writes anything afterwards.
C18_MissingRecordFatal ==
    [][\A w \in Workers :
         /\ (pc[w] = "finalize" /\ pc'[w] # "finalize"
                 /\ ~bundle_data[w][cur[w]].present) =>
                /\ pc'[w] = "crashed"
                /\ state' = state /\ data_hash' = data_hash
                /\ metadata' = metadata /\ blobs' = blobs
                /\ machine_finalized' = machine_finalized
         /\ pc[w] = "crashed" =>
                /\ pc'[w] = "crashed"
                /\ state' = state /\ data_hash' = data_hash
                /\ metadata' = metadata /\ blobs' = blobs
                /\ machine_finalized' = machine_finalized]_vars

\* C18 witness: poll returned A, which the machine was executing when the
\* worker was constructed; the worker has stopped in finalize_bundle and A
\* is still RUNNING in the store.
C18_Witness ==
    /\ pc["w1"] = "crashed" /\ cur["w1"] = "A"
    /\ result["w1"].ret = "tick_end"
    /\ ~bundle_data["w1"]["A"].present
    /\ state["A"] = RUNNING /\ data_hash["A"] = NoHash
    /\ "A" \notin machine_finalized["w1"]

----------------------------------------------------------------------------
(* Terminal states *)

\* C19: with two workers sharing the store, no step changes the state or the
\* data_hash of a bundle that is READY or FAILED; a worker that writes
\* FAILED for a CREATED bundle it read earlier finds it CREATED or already
\* FAILED, and a finalize_bundle writes only over RUNNING.
C19_TerminalAbsorbing ==
    [][/\ \A b \in Uuids :
            state[b] \in {READY, FAILED} =>
                state'[b] = state[b] /\ data_hash'[b] = data_hash[b]
       /\ \A w \in Workers :
            /\ \A f \in to_fail[w] \ to_fail'[w] :
                   state[f.bundle] \in {CREATED, FAILED}
            /\ (pc[w] = "commit" /\ pc'[w] # "commit") => state[cur[w]] = RUNNING]_vars

\* C19 witness: both workers classified B as a bundle to fail; one has
\* written FAILED and the other is about to write it again.
C19_Witness ==
    /\ state["B"] = FAILED
    /\ pc["w2"] = "created_fail"
    /\ \E f \in to_fail["w2"] : f.bundle = "B"
    /\ pc["w1"] \notin {"created_parents", "created_fail"}

----------------------------------------------------------------------------
(* Two workers and one action queue *)

\* two workers whose threads both keep running
SpecFair ==
    /\ InitFair
    /\ [][Next]_vars
    /\ \A w \in Workers : WF_vars(WorkerStep(w))

\* whether a KILL for u is in the queue or in the hands of a worker that
\* popped it and has not yet put it back
Pending(u) ==
    \/ Count(queue, KillOf(u)) > 0
    \/ \E w \in Workers : Count(keep[w], KillOf(u)) > 0

\* the part of C20 that is about single steps: a worker that pops a KILL for
\* a bundle its machine does not run keeps it and puts it back, a KILL is
\* applied by the worker whose machine runs the bundle, and no bundle has
\* KILL applied twice.
KillNotLost ==
    /\ [][\A w \in Workers, u \in Uuids :
            /\ (pc[w] = "tick" /\ pc'[w] = "kill_add" /\ u \notin running[w]) =>
                   /\ Count(keep'[w], KillOf(u)) = Count(queue, KillOf(u))
                   /\ bundle_data'[w][u] = bundle_data[w][u]
                   /\ u \notin killed'[w] \ killed[w]
            /\ (pc[w] = "kill_add" /\ pc'[w] # "kill_add") =>
                   Count(queue', KillOf(u)) =
                       Count(queue, KillOf(u)) + Count(keep[w], KillOf(u))]_vars
    /\ [](\A u \in Uuids :
            Cardinality({w \in Workers : u \in killed[w]}) <= 1
            /\ \A w \in Workers : Count(bundle_data[w][u].actions, KILL) <= 1)

\* C20: with two workers that run on forever, a KILL for a bundle that runs
\* on the machine of w2 is neither consumed nor lost by w1 and is applied at
\* most once, and while it is pending it is eventually popped by w2, whose
\* check_killed_bundles passes it to its machine.kill_bundle.
C20_KillReachesOwner ==
    /\ KillNotLost
    /\ num_iterations = 0 =>
          \A u \in Uuids :
             (u \in running["w2"] /\ Pending(u))
                 ~> (Count(popped["w2"], KillOf(u)) > 0)

====
